---- MODULE Spec2Model ----
(***************************************************************************)
(* The to-do application of 01-todo/todos: the Todo table, the TodoForm    *)
(* validation, the five views of views.py, and the arithmetic of the list  *)
(* view's completion percentage.                                           *)
(*                                                                         *)
(* Three specifications:                                                   *)
(*   Spec      requests handled one after the other (the test client);     *)
(*   SpecPct   the list view over stores of up to MaxTotal records;        *)
(*   SpecConc  requests handled by concurrent workers, one database        *)
(*             statement per step.                                         *)
(***************************************************************************)
EXTENDS Integers, Sequences, FiniteSets, TLC

VARIABLES
    db,         \* the database: [todos, next_pk, clock]
    request,    \* the request handled last (sequential client)
    response,   \* its response
    deleted,    \* history: the pks removed by a delete request
    toggled,    \* history: the run of consecutive toggles of one record
    workers,    \* SpecConc: each worker's position and locals
    log,        \* SpecConc: the requests started, in the order they started
    db0         \* SpecConc: the database before the first request

vars == <<db, request, response, deleted, toggled, workers, log, db0>>

\* ------------------------------------------------------------------ bounds

MaxId == 2          \* pks handed out by the sequence, and pks requests name
MaxTotal == 50      \* SpecPct: records in the store
NumWorkers == 2     \* SpecConc: concurrent workers
MaxReqs == 3        \* SpecConc: requests started in one run

\* ------------------------------------------------------- optional values

\* Python's None is the empty set, a present value v is {v}.
Null == {}
Some(v) == {v}
Get(o) == CHOOSE v \in o : TRUE

\* ------------------------------------------------------------- text

\* A string is a sequence of one-character strings.
Whitespace == {" "}

\* str.strip(): what forms.CharField (strip=True) does to its input.
Strip(s) ==
    LET keep == {i \in 1..Len(s) : s[i] \notin Whitespace}
    IN  IF keep = {} THEN <<>>
        ELSE SubSeq(s, CHOOSE i \in keep : \A j \in keep : i <= j,
                       CHOOSE i \in keep : \A j \in keep : j <= i)

\* ------------------------------------------------------------- dates

IsLeap(y) == (y % 4 = 0 /\ y % 100 # 0) \/ y % 400 = 0

DaysInMonth(y, m) ==
    IF m = 2 THEN (IF IsLeap(y) THEN 29 ELSE 28)
    ELSE IF m \in {4, 6, 9, 11} THEN 30 ELSE 31

\* forms.DateField parsing "%Y-%m-%d": the text is its three numeric fields;
\* the result is a date, or Null when the text names no calendar day.
parse_date(text) ==
    IF /\ Len(text) = 3
       /\ text[2] \in 1..12
       /\ text[3] \in 1..DaysInMonth(text[1], text[2])
    THEN Some([year |-> text[1], month |-> text[2], day |-> text[3]])
    ELSE Null

\* ------------------------------------------------- float arithmetic
\* Python's float is an IEEE 754 double: a significand of MantissaBits bits
\* (most significant first) and a binary exponent; value = mant * 2^exp.
\* Every operation rounds its exact result to nearest, ties to even.

MantissaBits == 53

BitLen(n) == CHOOSE w \in 0..30 : n < 2^w /\ (w = 0 \/ 2^(w - 1) <= n)

IntToBits(v, w) == [i \in 1..w |-> (v \div 2^(w - i)) % 2]

IntBits(n) == IntToBits(n, BitLen(n))

RECURSIVE BitsToInt(_)
BitsToInt(bits) ==
    IF Len(bits) = 0 THEN 0
    ELSE IF Len(bits) = 1 THEN bits[1]
    ELSE LET h == Len(bits) \div 2
         IN  BitsToInt(SubSeq(bits, 1, h)) * 2^(Len(bits) - h)
             + BitsToInt(SubSeq(bits, h + 1, Len(bits)))

RECURSIVE PowMod2(_, _)
PowMod2(i, n) ==
    IF i = 0 THEN 1 % n
    ELSE LET h == PowMod2(i \div 2, n)
         IN  (((h * h) % n) * (IF i % 2 = 1 THEN 2 ELSE 1)) % n

\* The remainder left after k binary digits of rem/n, and those digits.
FracRem(rem, n, k) == (rem * PowMod2(k, n)) % n

FracBits(rem, n, k) == [i \in 1..k |-> (2 * FracRem(rem, n, i - 1)) \div n]

RECURSIVE LeadingZeros(_, _)
LeadingZeros(rem, n) == IF 2 * rem >= n THEN 0 ELSE 1 + LeadingZeros(2 * rem, n)

Increment(bits) ==
    LET zeros == {i \in 1..Len(bits) : bits[i] = 0}
    IN  IF zeros = {} THEN <<1>> \o [i \in 1..Len(bits) |-> 0]
        ELSE LET j == CHOOSE i \in zeros : \A o \in zeros : o <= i
             IN  [i \in 1..Len(bits) |->
                     IF i < j THEN bits[i] ELSE IF i = j THEN 1 ELSE 0]

FloatZero == [mant |-> <<>>, exp |-> 0]

Normalise(bits, exp, up) ==
    LET m == IF up THEN Increment(bits) ELSE bits
    IN  IF Len(m) > MantissaBits
        THEN [mant |-> SubSeq(m, 1, MantissaBits), exp |-> exp + 1]
        ELSE [mant |-> m, exp |-> exp]

\* int / int: the correctly rounded quotient of two integers, a >= 0, b > 0.
TrueDiv(a, b) ==
    IF a = 0 THEN FloatZero
    ELSE LET q  == a \div b
             r  == a % b
             ib == IntBits(q)
             z  == IF q > 0 THEN 0 ELSE LeadingZeros(r, b)
             k  == IF q > 0 THEN MantissaBits - Len(ib) ELSE z + MantissaBits
             fb == FracBits(r, b, k)
             m  == IF q > 0 THEN ib \o fb ELSE SubSeq(fb, z + 1, k)
             rm == FracRem(r, b, k)
             up == 2 * rm > b \/ (2 * rm = b /\ m[MantissaBits] = 1)
         IN  Normalise(m, 0 - k, up)

\* The exact product of a bit string and a small integer, 24 bits at a time.
RECURSIVE MulBits(_, _, _)
MulBits(bits, c, carry) ==
    IF Len(bits) <= 24
    THEN IntBits(BitsToInt(bits) * c + carry)
    ELSE LET n == Len(bits)
             v == BitsToInt(SubSeq(bits, n - 23, n)) * c + carry
         IN  MulBits(SubSeq(bits, 1, n - 24), c, v \div 2^24)
             \o IntToBits(v % 2^24, 24)

\* float * int, for an int that a double holds exactly (here 100).
FloatMulInt(x, c) ==
    IF x.mant = <<>> \/ c = 0 THEN FloatZero
    ELSE LET p      == MulBits(x.mant, c, 0)
             extra  == Len(p) - MantissaBits
             kept   == SubSeq(p, 1, MantissaBits)
             guard  == IF extra > 0 THEN p[MantissaBits + 1] ELSE 0
             sticky == \E i \in (MantissaBits + 2)..Len(p) : p[i] = 1
             up     == guard = 1 /\ (sticky \/ kept[MantissaBits] = 1)
         IN  IF extra <= 0 THEN [mant |-> p, exp |-> x.exp]
             ELSE Normalise(kept, x.exp + extra, up)

\* int(float): truncation toward zero.
FloatToInt(x) ==
    LET n == Len(x.mant) + x.exp
    IN  IF n <= 0 THEN 0 ELSE BitsToInt(SubSeq(x.mant, 1, n))

\* int((resolved_todos / total_todos * 100)) if total_todos > 0 else 0
completion_percentage(resolved_todos, total_todos) ==
    IF total_todos > 0
    THEN FloatToInt(FloatMulInt(TrueDiv(resolved_todos, total_todos), 100))
    ELSE 0

\* ------------------------------------------------------------ the model

\* A row of the Todo table before the form has filled it in: the defaults.
TodoDefaults ==
    [title |-> <<>>, description |-> Null, due_date |-> Null,
     is_resolved |-> FALSE, created_at |-> 0]

EmptyDb == [todos |-> <<>>, next_pk |-> 1, clock |-> 1]

\* INSERT: the sequence hands out the pk and created_at is the time of the
\* insert; neither is ever handed out again.
insert(d, row) ==
    [todos   |-> [p \in DOMAIN d.todos \cup {d.next_pk} |->
                     IF p = d.next_pk THEN [row EXCEPT !.created_at = d.clock]
                     ELSE d.todos[p]],
     next_pk |-> d.next_pk + 1,
     clock   |-> d.clock + 1]

\* UPDATE ... WHERE id = pk, every column written.
update_row(d, pk, row) == [d EXCEPT !.todos[pk] = row]

\* DELETE ... WHERE id = pk.
delete_row(d, pk) ==
    [d EXCEPT !.todos = [p \in DOMAIN d.todos \ {pk} |-> d.todos[p]]]

\* Meta.ordering as test_todo_ordering observes it: of two rows, the one
\* created later comes first.
\* (mutant: the ordering reversed, oldest first)
OrderedBefore_mutant_oldest_first(a, b) == a.created_at < b.created_at
OrderedBefore(a, b) == a.created_at > b.created_at

\* Todo.objects.all(): the pks in the default ordering.
get_queryset(d) ==
    LET rank(p) == Cardinality({o \in DOMAIN d.todos :
                                   OrderedBefore(d.todos[o], d.todos[p])})
    IN  [i \in 1..Cardinality(DOMAIN d.todos) |->
            CHOOSE p \in DOMAIN d.todos : rank(p) = i - 1]

\* ------------------------------------------------------------ the form

TodoFormFields == {"title", "description", "due_date", "is_resolved"}

\* CharField.to_python: a missing key is the empty string; the text is
\* stripped.
to_python_char(raw) == IF raw = Null THEN <<>> ELSE Strip(Get(raw))

\* CheckboxInput.value_from_datadict: a missing key is False, "true" and
\* "false" in any case are themselves, any other non-empty text is True.
to_python_bool(raw) ==
    IF raw = Null THEN FALSE
    ELSE IF Get(raw) \in {"True", "true"} THEN TRUE
    ELSE IF Get(raw) \in {"False", "false"} THEN FALSE
    ELSE Get(raw) # ""

field_errors(name, data) ==
    IF name = "title" /\ to_python_char(data.title) = <<>>
    THEN {<<"title", "required">>}
    ELSE IF /\ name = "due_date"
            /\ data.due_date # Null
            /\ Get(data.due_date) # <<>>
            /\ parse_date(Get(data.due_date)) = Null
    THEN {<<"due_date", "invalid">>}
    ELSE {}

\* TodoForm(data) restricted to `fields`: is_valid() is errors = {}.
TodoForm(data, fields) ==
    [errors |-> UNION {field_errors(f, data) : f \in fields},
     cleaned_data |->
        [title       |-> to_python_char(data.title),
         description |-> IF to_python_char(data.description) = <<>> THEN Null
                         ELSE Some(to_python_char(data.description)),
         due_date    |-> IF data.due_date = Null \/ Get(data.due_date) = <<>>
                         THEN Null ELSE parse_date(Get(data.due_date)),
         is_resolved |-> to_python_bool(data.is_resolved)]]

\* ModelForm.save(): only the form's own fields are written to the instance.
construct_instance(instance, form, fields) ==
    [instance EXCEPT
        !.title       = IF "title" \in fields THEN form.cleaned_data.title ELSE @,
        !.description = IF "description" \in fields
                        THEN form.cleaned_data.description ELSE @,
        !.due_date    = IF "due_date" \in fields THEN form.cleaned_data.due_date ELSE @,
        !.is_resolved = IF "is_resolved" \in fields
                        THEN form.cleaned_data.is_resolved ELSE @]

\* ------------------------------------------------------------ responses

redirect == [status |-> 302, location |-> "/", errors |-> {}, context |-> Null]

not_found == [status |-> 404, location |-> "", errors |-> {}, context |-> Null]

form_invalid(form) ==
    [status |-> 200, location |-> "", errors |-> form.errors, context |-> Null]

render_list(object_list, total_todos, resolved_todos) ==
    [status |-> 200, location |-> "", errors |-> {},
     context |-> Some([todos |-> object_list,
                       total_todos |-> total_todos,
                       resolved_todos |-> resolved_todos,
                       completion_percentage |->
                           completion_percentage(resolved_todos, total_todos)])]

\* ------------------------------------------------------------ the views

count(d) == Cardinality(DOMAIN d.todos)

count_resolved(d) == Cardinality({p \in DOMAIN d.todos : d.todos[p].is_resolved})

\* TodoListView.get
list_view_get(d) ==
    [db |-> d, response |-> render_list(get_queryset(d), count(d), count_resolved(d))]

\* TodoCreateView.get_form: the resolved flag is taken off the form.
\* (mutant: get_form without the pop)
get_form_fields_mutant_keeps_flag == TodoFormFields
get_form_fields == TodoFormFields \ {"is_resolved"}

\* TodoCreateView.post
\* (mutant: the form is saved without is_valid())
create_view_post_mutant_no_validation(d, data) ==
    LET form == TodoForm(data, get_form_fields)
    IN  [db |-> insert(d, construct_instance(TodoDefaults, form, get_form_fields)),
         response |-> redirect]
create_view_post(d, data) ==
    LET form == TodoForm(data, get_form_fields)
    IN  IF form.errors = {}
        THEN [db |-> insert(d, construct_instance(TodoDefaults, form, get_form_fields)),
              response |-> redirect]
        ELSE [db |-> d, response |-> form_invalid(form)]

\* TodoUpdateView.post
\* (mutant: the instance is saved although the form is invalid)
update_view_post_mutant_saves_invalid(d, pk, data) ==
    LET form == TodoForm(data, TodoFormFields)
    IN  IF pk \notin DOMAIN d.todos THEN [db |-> d, response |-> not_found]
        ELSE [db |-> update_row(d, pk, construct_instance(d.todos[pk], form, TodoFormFields)),
              response |-> IF form.errors = {} THEN redirect ELSE form_invalid(form)]
update_view_post(d, pk, data) ==
    LET form == TodoForm(data, TodoFormFields)
    IN  IF pk \notin DOMAIN d.todos THEN [db |-> d, response |-> not_found]
        ELSE IF form.errors = {}
        THEN [db |-> update_row(d, pk, construct_instance(d.todos[pk], form, TodoFormFields)),
              response |-> redirect]
        ELSE [db |-> d, response |-> form_invalid(form)]

\* TodoDeleteView.post
\* (mutant: the redirect without the delete)
delete_view_post_mutant_keeps_row(d, pk) ==
    IF pk \notin DOMAIN d.todos THEN [db |-> d, response |-> not_found]
    ELSE [db |-> d, response |-> redirect]
delete_view_post(d, pk) ==
    IF pk \notin DOMAIN d.todos THEN [db |-> d, response |-> not_found]
    ELSE [db |-> delete_row(d, pk), response |-> redirect]

\* toggle_resolved
\* (mutants: the flag set rather than flipped; a second column written)
toggle_resolved_mutant_sets_true(d, pk) ==
    IF pk \notin DOMAIN d.todos THEN [db |-> d, response |-> not_found]
    ELSE [db |-> update_row(d, pk, [d.todos[pk] EXCEPT !.is_resolved = TRUE]),
          response |-> redirect]
toggle_resolved_mutant_clears_due(d, pk) ==
    IF pk \notin DOMAIN d.todos THEN [db |-> d, response |-> not_found]
    ELSE [db |-> update_row(d, pk, [d.todos[pk] EXCEPT !.is_resolved = ~@,
                                                       !.due_date = Null]),
          response |-> redirect]
toggle_resolved(d, pk) ==
    IF pk \notin DOMAIN d.todos THEN [db |-> d, response |-> not_found]
    ELSE [db |-> update_row(d, pk, [d.todos[pk] EXCEPT !.is_resolved = ~@]),
          response |-> redirect]

\* ------------------------------------------------------------ requests

Pks == 1..MaxId

TitleInputs == {Null, Some(<<>>), Some(<<" ">>), Some(<<"a">>), Some(<<" ", "b", " ">>)}

OptionalInputs ==
    {[description |-> Null, due_date |-> Null],
     [description |-> Some(<<"d">>), due_date |-> Some(<<2025, 1, 15>>)],
     [description |-> Some(<<" ">>), due_date |-> Some(<<2025, 2, 30>>)]}

ResolvedInputs == {Null, Some("True"), Some("False")}

\* The submissions: every title with nothing else, a good title with every
\* combination of the other fields, and one with everything wrong.
PostData ==
    {[title |-> t, description |-> Null, due_date |-> Null, is_resolved |-> Null] :
        t \in TitleInputs}
    \cup {[title |-> Some(<<"a">>), description |-> o.description,
           due_date |-> o.due_date, is_resolved |-> r] :
        o \in OptionalInputs, r \in ResolvedInputs}
    \cup {[title |-> Null, description |-> Some(<<"d">>),
           due_date |-> Some(<<2025, 2, 30>>), is_resolved |-> Some("True")]}

NoRequest == [op |-> "none", pk |-> 0, title |-> Null, is_resolved |-> Null]

NoResponse == [status |-> 0, location |-> "", errors |-> {}, context |-> Null]

Idle == [pc |-> "idle", req |-> [op |-> "none", pk |-> 0, data |-> Null],
         obj |-> Null, total |-> 0, resolved |-> 0, response |-> NoResponse]

\* --------------------------------------- Spec: one request after the other

Init ==
    /\ db = EmptyDb
    /\ request = NoRequest
    /\ response = NoResponse
    /\ deleted = {}
    /\ toggled = Null
    /\ workers = [w \in 1..NumWorkers |-> Idle]
    /\ log = <<>>
    /\ db0 = EmptyDb

\* GET /
List ==
    /\ response' = list_view_get(db).response
    /\ request' = [op |-> "list", pk |-> 0, title |-> Null, is_resolved |-> Null]
    /\ toggled' = Null
    /\ UNCHANGED <<db, deleted, workers, log, db0>>

\* POST /create/
Create(data) ==
    /\ db.next_pk <= MaxId
    /\ LET out == create_view_post(db, data)
       IN  /\ db' = out.db
           /\ response' = out.response
    /\ request' = [op |-> "create", pk |-> 0, title |-> data.title,
                   is_resolved |-> data.is_resolved]
    /\ toggled' = Null
    /\ UNCHANGED <<deleted, workers, log, db0>>

\* POST /<pk>/update/
Update(pk, data) ==
    /\ LET out == update_view_post(db, pk, data)
       IN  /\ db' = out.db
           /\ response' = out.response
    /\ request' = [op |-> "update", pk |-> pk, title |-> data.title,
                   is_resolved |-> data.is_resolved]
    /\ toggled' = Null
    /\ UNCHANGED <<deleted, workers, log, db0>>

\* POST /<pk>/delete/
Delete(pk) ==
    /\ LET out == delete_view_post(db, pk)
       IN  /\ db' = out.db
           /\ response' = out.response
           /\ deleted' = IF out.response.status = 302 THEN deleted \cup {pk} ELSE deleted
    /\ request' = [op |-> "delete", pk |-> pk, title |-> Null, is_resolved |-> Null]
    /\ toggled' = Null
    /\ UNCHANGED <<workers, log, db0>>

\* GET /<pk>/toggle/
Toggle(pk) ==
    /\ LET out == toggle_resolved(db, pk)
       IN  /\ db' = out.db
           /\ response' = out.response
           /\ toggled' =
                IF out.response.status # 302 THEN Null
                ELSE IF \E t \in toggled : t.pk = pk /\ t.n = 1
                THEN {[t EXCEPT !.n = 2] : t \in toggled}
                ELSE Some([pk |-> pk, orig |-> db.todos[pk].is_resolved, n |-> 1])
    /\ request' = [op |-> "toggle", pk |-> pk, title |-> Null, is_resolved |-> Null]
    /\ UNCHANGED <<deleted, workers, log, db0>>

Next ==
    \/ List
    \/ \E data \in PostData : Create(data)
    \/ \E pk \in Pks, data \in PostData : Update(pk, data)
    \/ \E pk \in Pks : Delete(pk)
    \/ \E pk \in Pks : Toggle(pk)

Spec == Init /\ [][Next]_vars

\* ----------------------------- SpecPct: the list view over larger stores

\* A store of n records, the r oldest of them resolved.
StoreOf(n, r) ==
    [todos   |-> [p \in 1..n |-> [TodoDefaults EXCEPT !.title = <<"a">>,
                                                       !.is_resolved = p <= r,
                                                       !.created_at = p]],
     next_pk |-> n + 1,
     clock   |-> n + 1]

InitPct ==
    /\ db \in UNION {{StoreOf(n, r) : r \in 0..n} : n \in 0..MaxTotal}
    /\ request = NoRequest
    /\ response = NoResponse
    /\ deleted = {}
    /\ toggled = Null
    /\ workers = [w \in 1..NumWorkers |-> Idle]
    /\ log = <<>>
    /\ db0 = EmptyDb

NextPct == List

SpecPct == InitPct /\ [][NextPct]_vars

\* ------------------------- SpecConc: concurrent workers, a statement a step

ConcData ==
    {[title |-> Some(<<" ", "b", " ">>), description |-> Null, due_date |-> Null,
      is_resolved |-> Some("True")],
     [title |-> Some(<<" ">>), description |-> Null, due_date |-> Null,
      is_resolved |-> Null]}

ConcRequests ==
    {[op |-> "list", pk |-> 0, data |-> Null]}
    \cup {[op |-> "create", pk |-> 0, data |-> Some(d)] : d \in ConcData}
    \cup {[op |-> "update", pk |-> pk, data |-> Some(d)] : pk \in Pks, d \in ConcData}
    \cup {[op |-> o, pk |-> pk, data |-> Null] : o \in {"delete", "toggle"}, pk \in Pks}

InitialDbs == {EmptyDb, StoreOf(1, 0), StoreOf(1, 1)}

InitConc ==
    /\ db \in InitialDbs
    /\ db0 = db
    /\ workers = [w \in 1..NumWorkers |-> Idle]
    /\ log = <<>>
    /\ request = NoRequest
    /\ response = NoResponse
    /\ deleted = {}
    /\ toggled = Null

FirstStep(op) ==
    CASE op = "list"   -> "count_total"
      [] op = "create" -> "insert"
      [] OTHER         -> "get"

\* Model.save() of an instance that has a pk: UPDATE every column WHERE
\* id = pk and, when that matched no row, INSERT the instance.
save(d, pk, row) ==
    [d EXCEPT !.todos = [p \in DOMAIN d.todos \cup {pk} |->
                            IF p = pk THEN row ELSE d.todos[p]]]

\* A worker takes the next request.
Start(w, req) ==
    /\ workers[w].pc = "idle"
    /\ Len(log) < MaxReqs
    /\ workers' = [workers EXCEPT ![w] = [Idle EXCEPT !.pc = FirstStep(req.op),
                                                       !.req = req]]
    /\ log' = Append(log, req)
    /\ UNCHANGED <<db, request, response, deleted, toggled, db0>>

\* get_object_or_404 / get_object: SELECT the row into the instance.
GetObject(w) ==
    /\ workers[w].pc = "get"
    /\ LET me == workers[w]
       IN  workers' = [workers EXCEPT ![w] =
              IF me.req.pk \in DOMAIN db.todos
              THEN [me EXCEPT !.obj = Some(db.todos[me.req.pk]),
                              !.pc = IF me.req.op = "delete" THEN "delete" ELSE "save"]
              ELSE [me EXCEPT !.pc = "idle", !.response = not_found]]
    /\ UNCHANGED <<db, request, response, deleted, toggled, log, db0>>

\* toggle_resolved: flip the flag on the instance read earlier, save().
SaveToggle(w) ==
    /\ workers[w].pc = "save"
    /\ workers[w].req.op = "toggle"
    /\ LET me == workers[w]
       IN  /\ db' = save(db, me.req.pk, [Get(me.obj) EXCEPT !.is_resolved = ~@])
           /\ workers' = [workers EXCEPT ![w] = [me EXCEPT !.pc = "idle",
                                                           !.response = redirect]]
    /\ UNCHANGED <<request, response, deleted, toggled, log, db0>>

\* TodoUpdateView: validate the form, save() the instance read earlier.
SaveForm(w) ==
    /\ workers[w].pc = "save"
    /\ workers[w].req.op = "update"
    /\ LET me   == workers[w]
           form == TodoForm(Get(me.req.data), TodoFormFields)
       IN  IF form.errors = {}
           THEN /\ db' = save(db, me.req.pk,
                              construct_instance(Get(me.obj), form, TodoFormFields))
                /\ workers' = [workers EXCEPT ![w] = [me EXCEPT !.pc = "idle",
                                                                !.response = redirect]]
           ELSE /\ db' = db
                /\ workers' = [workers EXCEPT ![w] =
                                  [me EXCEPT !.pc = "idle",
                                             !.response = form_invalid(form)]]
    /\ UNCHANGED <<request, response, deleted, toggled, log, db0>>

\* TodoDeleteView: DELETE the row of the instance read earlier.
DeleteObject(w) ==
    /\ workers[w].pc = "delete"
    /\ LET me == workers[w]
       IN  /\ db' = delete_row(db, me.req.pk)
           /\ workers' = [workers EXCEPT ![w] = [me EXCEPT !.pc = "idle",
                                                           !.response = redirect]]
    /\ UNCHANGED <<request, response, deleted, toggled, log, db0>>

\* TodoCreateView: validate the form, INSERT.
Insert(w) ==
    /\ workers[w].pc = "insert"
    /\ LET me  == workers[w]
           out == create_view_post(db, Get(me.req.data))
       IN  /\ db' = out.db
           /\ workers' = [workers EXCEPT ![w] = [me EXCEPT !.pc = "idle",
                                                           !.response = out.response]]
    /\ UNCHANGED <<request, response, deleted, toggled, log, db0>>

\* total_todos = self.get_queryset().count()
CountTotal(w) ==
    /\ workers[w].pc = "count_total"
    /\ workers' = [workers EXCEPT ![w].total = count(db), ![w].pc = "count_resolved"]
    /\ UNCHANGED <<db, request, response, deleted, toggled, log, db0>>

\* resolved_todos = self.get_queryset().filter(is_resolved=True).count()
CountResolved(w) ==
    /\ workers[w].pc = "count_resolved"
    /\ workers' = [workers EXCEPT ![w].resolved = count_resolved(db), ![w].pc = "render"]
    /\ UNCHANGED <<db, request, response, deleted, toggled, log, db0>>

\* The template iterates todos: the rows are fetched now.
Render(w) ==
    /\ workers[w].pc = "render"
    /\ LET me == workers[w]
       IN  workers' = [workers EXCEPT ![w] =
              [me EXCEPT !.pc = "idle",
                         !.response = render_list(get_queryset(db), me.total, me.resolved)]]
    /\ UNCHANGED <<db, request, response, deleted, toggled, log, db0>>

NextConc ==
    \/ \E w \in 1..NumWorkers, req \in ConcRequests : Start(w, req)
    \/ \E w \in 1..NumWorkers : GetObject(w)
    \/ \E w \in 1..NumWorkers : SaveToggle(w)
    \/ \E w \in 1..NumWorkers : SaveForm(w)
    \/ \E w \in 1..NumWorkers : DeleteObject(w)
    \/ \E w \in 1..NumWorkers : Insert(w)
    \/ \E w \in 1..NumWorkers : CountTotal(w)
    \/ \E w \in 1..NumWorkers : CountResolved(w)
    \/ \E w \in 1..NumWorkers : Render(w)

SpecConc == InitConc /\ [][NextConc]_vars

\* The same request handled in one step: the serial reference.
handle(d, req) ==
    CASE req.op = "create" -> create_view_post(d, Get(req.data)).db
      [] req.op = "update" -> update_view_post(d, req.pk, Get(req.data)).db
      [] req.op = "delete" -> delete_view_post(d, req.pk).db
      [] req.op = "toggle" -> toggle_resolved(d, req.pk).db
      [] OTHER             -> d

\* The stores that the requests log[i], i \in todo, leave behind when they
\* run one after the other from d, in every order.
RECURSIVE SerialStores(_, _)
SerialStores(d, todo) ==
    IF todo = {} THEN {d.todos}
    ELSE UNION {SerialStores(handle(d, log[i]), todo \ {i}) : i \in todo}

\* ------------------------------------------------------------ the claims

\* A submitted title that is missing, empty or made of whitespace only.
TitleBlank(raw) ==
    raw = Null \/ \A i \in 1..Len(Get(raw)) : Get(raw)[i] \in Whitespace

\* C1: a create request never changes or removes an existing record and every
\* record it adds has is_resolved = FALSE, whatever is_resolved it carries
\* (true, false or absent); a create that passes validation does add one. So
\* no sequence of create requests alone produces a resolved record.
C1_CreateForcesUnresolved ==
    [][request'.op = "create" =>
          /\ \A p \in DOMAIN db.todos :
                p \in DOMAIN db'.todos /\ db'.todos[p] = db.todos[p]
          /\ \A p \in DOMAIN db'.todos \ DOMAIN db.todos : ~db'.todos[p].is_resolved
          /\ response'.status = 302 =>
                DOMAIN db'.todos \ DOMAIN db.todos = {db.next_pk}]_vars

C1_Witness ==
    /\ request.op = "create"
    /\ request.is_resolved = Some("True")
    /\ response.status = 302
    /\ db.next_pk - 1 \in DOMAIN db.todos
    /\ ~db.todos[db.next_pk - 1].is_resolved

\* C2: a create or update submission whose title is missing, empty or
\* whitespace-only leaves the database exactly as it was, and (for create,
\* and for update of a record that exists) the response is the form again
\* with status 200, no redirect, and the required error on the title field.
C2_BlankTitleRejected ==
    [][(request'.op \in {"create", "update"} /\ TitleBlank(request'.title)) =>
          /\ db' = db
          /\ (request'.op = "create" \/ request'.pk \in DOMAIN db.todos) =>
                /\ response'.status = 200
                /\ response'.location = ""
                /\ <<"title", "required">> \in response'.errors]_vars

C2_Witness ==
    /\ request.op = "update"
    /\ request.title = Some(<<" ">>)
    /\ request.pk \in DOMAIN db.todos
    /\ response.status = 200

\* C3: a toggle of an existing record redirects to the list view and flips
\* is_resolved, and a second toggle of that record right after the first
\* returns is_resolved to the value it had before the first.
C3_ToggleTwiceRestores ==
    /\ \A t \in toggled :
          /\ t.pk \in DOMAIN db.todos
          /\ response.status = 302
          /\ response.location = "/"
          /\ db.todos[t.pk].is_resolved = (IF t.n = 1 THEN ~t.orig ELSE t.orig)
    /\ (request.op = "toggle" /\ response.status # 302) =>
          request.pk \notin DOMAIN db.todos

C3_Witness == \E t \in toggled : t.n = 2 /\ t.orig

\* C4: a deleted pk never names a record again, and an update, delete or
\* toggle request on a deleted pk answers 404 and changes nothing.
C4_DeletedStaysGone ==
    [][/\ deleted' \cap DOMAIN db'.todos = {}
       /\ (request'.op \in {"update", "delete", "toggle"} /\ request'.pk \in deleted) =>
             (response'.status = 404 /\ db' = db)]_vars

C4_Witness ==
    /\ request.op = "toggle"
    /\ request.pk \in deleted
    /\ response.status = 404
    /\ \E q \in DOMAIN db.todos : q > request.pk

\* C5: the list view reports total count N, resolved count R and completion
\* percentage floor(R/N*100), or 0 when N = 0.
C5_ListReportsFloor ==
    request.op = "list" =>
        LET c == Get(response.context)
            N == count(db)
            R == count_resolved(db)
        IN  /\ c.total_todos = N
            /\ c.resolved_todos = R
            /\ c.completion_percentage = (IF N > 0 THEN (R * 100) \div N ELSE 0)

C7_TitleNeverEmpty == \A p \in DOMAIN db.todos : db.todos[p].title # <<>>

C7_Witness ==
    /\ request.op = "create"
    /\ TitleBlank(request.title)
    /\ response.status = 200
    /\ \E p \in DOMAIN db.todos : db.todos[p].title = <<"b">>

\* C8: when every request has been answered, the store is one that the same
\* requests leave behind when run one after the other in some order.
C8_Serializable ==
    (\A w \in 1..NumWorkers : workers[w].pc = "idle") =>
        db.todos \in SerialStores(db0, 1..Len(log))

\* C9: a toggle of an existing record changes is_resolved of that record and
\* nothing else: its title, description and due_date, every other record and
\* the set of records stay as they were.
C9_ToggleFrame ==
    [][(request'.op = "toggle" /\ response'.status = 302) =>
          /\ DOMAIN db'.todos = DOMAIN db.todos
          /\ \A p \in DOMAIN db.todos \ {request'.pk} : db'.todos[p] = db.todos[p]
          /\ db'.todos[request'.pk].title = db.todos[request'.pk].title
          /\ db'.todos[request'.pk].description = db.todos[request'.pk].description
          /\ db'.todos[request'.pk].due_date = db.todos[request'.pk].due_date
          /\ db'.todos[request'.pk].is_resolved # db.todos[request'.pk].is_resolved]_vars

C9_Witness ==
    /\ request.op = "toggle"
    /\ response.status = 302
    /\ db.todos[request.pk].due_date # Null
    /\ db.todos[request.pk].description # Null
    /\ DOMAIN db.todos # {request.pk}

\* C10: every list response has resolved count <= total count and a
\* completion percentage between 0 and 100.
C10_ListWithinRange ==
    \A w \in 1..NumWorkers :
        \A c \in workers[w].response.context :
            /\ c.resolved_todos <= c.total_todos
            /\ 0 <= c.completion_percentage
            /\ c.completion_percentage <= 100

====
